---- MODULE Spec2Model ----
(* Model of the document summarizer: the /summarize handler of main.py,     *)
(* generate_summary, and the DocumentParser of Local_LM/document_parser.py. *)
(* Text is a sequence of one-character strings.                             *)
EXTENDS Integers, Sequences, FiniteSets, TLC

(***************************************************************************)
(* Bounds of the model.                                                    *)
(***************************************************************************)
\* number of summarize requests that may be in flight together
NumReq == 2
\* largest number of pages of a PDF given to _extract_pdf_text on its own
MaxPages == 3
\* largest k of a text of max_chars + k characters given to generate_summary
MaxExtra == 2

Reqs == 1..NumReq

(***************************************************************************)
(* Characters and str methods.                                             *)
(***************************************************************************)
Whitespace == {" ", "\n", "\t"}

\* str.lower() on one character (the letters the model uses)
LowerChar(c) ==
  CASE c = "P" -> "p"
    [] c = "D" -> "d"
    [] c = "F" -> "f"
    [] c = "O" -> "o"
    [] c = "C" -> "c"
    [] c = "X" -> "x"
    [] c = "T" -> "t"
    [] c = "A" -> "a"
    [] OTHER -> c

\* str.lower()
Lower(s) == [i \in 1..Len(s) |-> LowerChar(s[i])]

\* str.rfind('.') as a 1-based index, 0 when there is no dot
RFindDot(s) ==
  LET dots == {i \in 1..Len(s) : s[i] = "."}
  IN  IF dots = {} THEN 0 ELSE CHOOSE i \in dots : \A j \in dots : j <= i

\* pathlib's PurePath.suffix of a bare file name: the last dot and what
\* follows it, unless the dot is the first or the last character
Suffix(name) ==
  LET i == RFindDot(name)
  IN  IF 1 < i /\ i < Len(name) THEN SubSeq(name, i, Len(name)) ELSE <<>>

\* str.lstrip()
RECURSIVE LStrip(_)
LStrip(s) ==
  IF s # <<>> /\ Head(s) \in Whitespace THEN LStrip(Tail(s)) ELSE s

\* str.rstrip()
RECURSIVE RStrip(_)
RStrip(s) ==
  IF s # <<>> /\ s[Len(s)] \in Whitespace
    THEN RStrip(SubSeq(s, 1, Len(s) - 1))
    ELSE s

\* str.strip()
Strip(s) == RStrip(LStrip(s))

\* the separator of "\n\n".join(...)
Separator == <<"\n", "\n">>

\* "\n\n".join(parts)
RECURSIVE Join(_)
Join(parts) ==
  IF parts = <<>> THEN <<>>
  ELSE IF Len(parts) = 1 THEN parts[1]
  ELSE parts[1] \o Separator \o Join(Tail(parts))

\* Python truthiness of a str
Truthy(s) == s # <<>>

(***************************************************************************)
(* Optional[int]: None is {}, the integer n is {n}.                        *)
(***************************************************************************)
None == {}
Some(n) == {n}
IsNone(o) == o = {}
ValueOf(o) == CHOOSE n \in o : TRUE

(***************************************************************************)
(* Results of calls that may raise: raised is "" for a normal return, else *)
(* the class of the exception; cause says what went wrong where it was     *)
(* first raised, and status_code is that of an HTTPException.              *)
(***************************************************************************)
Ok(v) == [raised |-> "", status_code |-> 0, cause |-> "", value |-> v]
Raise(e, why) == [raised |-> e, status_code |-> 0, cause |-> why, value |-> <<>>]
HTTPException(code, why) ==
  [raised |-> "HTTPException", status_code |-> code, cause |-> why, value |-> <<>>]

(***************************************************************************)
(* Files.  What is stored under a path is what the decoding libraries see  *)
(* in it: a PDF is its pages, a DOCX its paragraphs, a DOC the bytes that  *)
(* textract returns.  A file just opened with 'wb' is empty.               *)
(***************************************************************************)
NoFile == [fmt |-> "missing"]
EmptyFile == [fmt |-> "empty"]
\* a byte that is not valid UTF-8
InvalidByte == "xFF"

Page(t) == [throws |-> FALSE, text |-> t]
ThrowingPage == [throws |-> TRUE, text |-> <<>>]
PdfFile(ps) == [fmt |-> "pdf", readable |-> TRUE, pages |-> ps]
DocxFile(ps) == [fmt |-> "docx", readable |-> TRUE, paragraphs |-> ps]
DocFile(bs) == [fmt |-> "doc", readable |-> TRUE, bytes |-> bs]
Malformed(f) == [fmt |-> f, readable |-> FALSE]

Libs == {"PyPDF2", "docx", "textract"}

DotPdf == <<".", "p", "d", "f">>
DotDocx == <<".", "d", "o", "c", "x">>
DotDoc == <<".", "d", "o", "c">>

(***************************************************************************)
(* DocumentParser                                                          *)
(***************************************************************************)
\* faulty variant of the loop: the try/except around extract_text is missing,
\* so the first page that throws ends the extraction
RECURSIVE TextParts_NoTry(_)
TextParts_NoTry(pages) ==
  IF pages = <<>> THEN <<>>
  ELSE LET page == Head(pages)
       IN  IF page.throws THEN <<>>
           ELSE IF Truthy(page.text) THEN <<page.text>> \o TextParts_NoTry(Tail(pages))
           ELSE TextParts_NoTry(Tail(pages))

\* the loop over pdf_reader.pages: text_parts after the pages were visited
RECURSIVE TextParts(_)
TextParts(pages) ==
  IF pages = <<>> THEN <<>>
  ELSE LET page == Head(pages)
           rest == TextParts(Tail(pages))
       IN  IF page.throws THEN rest
           ELSE IF Truthy(page.text) THEN <<page.text>> \o rest
           ELSE rest

\* DocumentParser._extract_pdf_text
_extract_pdf_text(file) ==
  IF file.fmt = "missing" THEN Raise("FileNotFoundError", "decode failed")
  ELSE IF file.fmt # "pdf" \/ ~file.readable THEN Raise("PdfReadError", "decode failed")
  ELSE Ok(Join(TextParts(file.pages)))

\* DocumentParser._parse_pdf
_parse_pdf(file, installed) ==
  IF "PyPDF2" \notin installed THEN Raise("ImportError", "import failed")
  ELSE LET r == _extract_pdf_text(file)
       IN  IF r.raised # "" THEN Raise("Exception", "decode failed") ELSE r

\* DocumentParser._extract_docx_text
_extract_docx_text(file) ==
  IF file.fmt # "docx" \/ ~file.readable THEN Raise("PackageNotFoundError", "decode failed")
  ELSE Ok(Join(SelectSeq(file.paragraphs, LAMBDA t : Truthy(Strip(t)))))

\* DocumentParser._parse_docx
_parse_docx(file, installed) ==
  IF "docx" \notin installed THEN Raise("ImportError", "import failed")
  ELSE LET r == _extract_docx_text(file)
       IN  IF r.raised # "" THEN Raise("Exception", "decode failed") ELSE r

\* bytes.decode('utf-8', errors='ignore')
Decode(bytes) == SelectSeq(bytes, LAMBDA b : b # InvalidByte)

\* DocumentParser._parse_doc
_parse_doc(file, installed) ==
  IF "textract" \notin installed THEN Raise("ImportError", "import failed")
  ELSE IF file.fmt # "doc" \/ ~file.readable THEN Raise("Exception", "decode failed")
  ELSE Ok(Decode(file.bytes))

\* DocumentParser.parse_document
parse_document(file, file_ext, installed) ==
  LET ext == Lower(file_ext)
  IN  IF ext = DotPdf THEN _parse_pdf(file, installed)
      ELSE IF ext = DotDocx THEN _parse_docx(file, installed)
      ELSE IF ext = DotDoc THEN _parse_doc(file, installed)
      ELSE Raise("ValueError", "unsupported type")

(***************************************************************************)
(* generate_summary                                                        *)
(***************************************************************************)
max_chars == 8000

\* the literal "... [truncated]"
TruncationMarker ==
  <<".", ".", ".", " ", "[", "t", "r", "u", "n", "c", "a", "t", "e", "d", "]">>

\* faulty variant: len(text) >= max_chars
Truncate_AtCeiling(text) ==
  IF Len(text) >= max_chars
    THEN SubSeq(text, 1, max_chars) \o TruncationMarker
    ELSE text

\* text after the "Truncate text if too long" block
Truncate(text) ==
  IF Len(text) > max_chars
    THEN SubSeq(text, 1, max_chars) \o TruncationMarker
    ELSE text

\* Python truthiness of an Optional[int]: None and 0 are false
TruthyInt(o) == ~IsNone(o) /\ ValueOf(o) # 0

\* length_instruction: the pieces of the f-string, "" being <<>>
length_instruction(max_length) ==
  IF TruthyInt(max_length)
    THEN <<" Keep the summary under ", ToString(ValueOf(max_length)), " words.">>
    ELSE <<>>

\* prompt: the pieces of the f-string template
CreatePrompt(text, max_length) ==
  [instruction |-> "Please provide a concise summary of the following document.",
   length_instruction |-> length_instruction(max_length),
   document |-> Truncate(text),
   cue |-> "Summary:"]

NoPrompt == [instruction |-> ""]

\* an answer of the generation service to the POST, or none (RequestError)
Unreachable == [reachable |-> FALSE]
ErrorStatus(code) == [reachable |-> TRUE, status_code |-> code]
Answer(fields) == [reachable |-> TRUE, status_code |-> 200, json |-> fields]

\* result.get("response", "")
GetResponse(json) == IF "response" \in DOMAIN json THEN json.response ELSE <<>>

\* faulty variant: the response field is not stripped
HandleResponse_NoStrip(response) ==
  IF ~response.reachable THEN Raise("RequestError", "unreachable")
  ELSE IF response.status_code # 200 THEN Raise("Exception", "error status")
  ELSE LET summary == GetResponse(response.json)
       IN  IF ~Truthy(summary) THEN Raise("Exception", "empty response")
           ELSE Ok(summary)

\* generate_summary from the answer of the service on
HandleResponse(response) ==
  IF ~response.reachable THEN Raise("RequestError", "unreachable")
  ELSE IF response.status_code # 200 THEN Raise("Exception", "error status")
  ELSE LET summary == Strip(GetResponse(response.json))
       IN  IF ~Truthy(summary) THEN Raise("Exception", "empty response")
           ELSE Ok(summary)

(***************************************************************************)
(* summarize_document                                                      *)
(***************************************************************************)
SupportedTypes == {DotPdf, DotDocx, DotDoc}

\* faulty variant: the suffix is not lower-cased
FileExt_NoLower(filename) == Suffix(filename)

\* file_ext
FileExt(filename) == Lower(Suffix(filename))

\* an except Exception clause that raises HTTPException(status_code=code)
ExceptException(r, code) ==
  IF r.raised # "" THEN HTTPException(code, r.cause) ELSE r

\* the "Parse document" try block
ParseStage(file, file_ext, installed) ==
  LET r == parse_document(file, file_ext, installed)
      body == IF r.raised # "" THEN r
              ELSE IF ~Truthy(r.value) \/ ~Truthy(Strip(r.value))
                THEN HTTPException(400, "empty text")
              ELSE r
  IN  ExceptException(body, 500)

\* faulty variant: the failure of the block is logged and not raised
AfterParse_NoRaise(res) == "prompt"

\* where the handler goes once the "Parse document" block is left: a raise
\* leaves the handler through finally, a return goes on to the summary
AfterParse(res) == IF res.raised # "" THEN "cleanup" ELSE "prompt"

\* faulty variant: the file is not removed
Unlink_Skipped(dir, path) == dir

\* if file_path.exists(): file_path.unlink()
Unlink(dir, path) == IF dir[path] # 0 THEN [dir EXCEPT ![path] = 0] ELSE dir

\* faulty variant: only None is unlimited
Normalize_NoneOnly(max_length) == max_length

\* normalized_max_length
Normalize(max_length) ==
  IF IsNone(max_length) \/ ValueOf(max_length) <= 0 THEN None ELSE max_length

\* the "Generate summary using Ollama" try block, from the answer on
GenerateStage(response) == ExceptException(HandleResponse(response), 500)

(***************************************************************************)
(* Inputs                                                                  *)
(***************************************************************************)
Filenames ==
  { <<"a", ".", "p", "d", "f">>,
    <<"a", ".", "P", "D", "F">>,
    <<"a", ".", "P", "d", "f">>,
    <<"b", ".", "d", "o", "c", "x">>,
    <<"b", ".", "D", "o", "c", "X">>,
    <<"c", ".", "d", "o", "c">>,
    <<"c", ".", "D", "O", "C">>,
    <<"a", ".", "t", "x", "t">>,
    <<"a", ".", "p", "d", "f", "x">>,
    <<"a", ".", "p", "d", "f", ".", "t", "x", "t">>,
    <<"p", "d", "f">>,
    <<".", "p", "d", "f">>,
    <<"a", "p", "d", "f", ".">> }

Contents ==
  { Malformed("pdf"), Malformed("docx"), Malformed("doc"),
    PdfFile(<<>>),
    PdfFile(<<Page(<<"a">>)>>),
    PdfFile(<<Page(<<" ">>), Page(<<"\n">>)>>),
    PdfFile(<<ThrowingPage>>),
    PdfFile(<<Page(<<"a">>), ThrowingPage, Page(<<"b">>)>>),
    DocxFile(<<>>),
    DocxFile(<<<<" ">>, <<>>>>),
    DocxFile(<<<<"H">>, <<>>, <<" ", " ">>, <<"W">>>>),
    DocFile(<<>>),
    DocFile(<<"\n", InvalidByte>>),
    DocFile(<<"a", InvalidByte, "b">>) }

MaxLengths == {None, Some(-5), Some(-1), Some(0), Some(1), Some(2), Some(100)}

GenResponses ==
  { Unreachable,
    ErrorStatus(500),
    Answer([done |-> TRUE]),
    Answer([response |-> <<>>]),
    Answer([response |-> <<" ", "\n">>]),
    Answer([response |-> <<"a">>]),
    Answer([response |-> <<" ", "a", " ", "b", "\n">>]) }

\* the r-th of the documents that concurrent requests upload
RECURSIVE Repeat(_, _)
Repeat(c, n) == IF n = 0 THEN <<>> ELSE <<c>> \o Repeat(c, n - 1)
ConcContent(r) == PdfFile(<<Page(Repeat("a", r))>>)
ConcFilenames == { <<"a", ".", "p", "d", "f">>, <<"a", ".", "P", "D", "F">> }

(***************************************************************************)
(* State                                                                   *)
(***************************************************************************)
VARIABLES
  installed,  \* the decoding libraries that can be imported
  req,        \* per request: file.filename, the uploaded content, max_length
  pc,         \* per request: where summarize_document stands
  fs,         \* the upload directory: path -> inode, 0 when there is none
  inodes,     \* the files ever created: what each holds, who opened it
  fd,         \* per request: the inode of the file it opened, 0 before
  extracted,  \* per request: the outcome of the "Parse document" block
  normalized_max_length,  \* per request: max_length after normalization
  prompt,     \* per request: the prompt posted to the generation service
  answer,     \* per request: what came back from the generation service
  outcome,    \* per request: the HTTP response
  trace,      \* per request: the stages run so far, in order
  call        \* a call of a function on its own: arguments and result

vars == <<installed, req, pc, fs, inodes, fd, extracted, normalized_max_length,
          prompt, answer, outcome, trace, call>>

UPLOAD_DIR == <<"uploads">>

\* file_path
file_path(filename) == UPLOAD_DIR \o <<"/">> \o filename

Paths == {file_path(n) : n \in Filenames}

NoRequest == [filename |-> <<>>, content |-> EmptyFile, max_length |-> None]
NoOutcome == [status_code |-> 0, cause |-> "", summary |-> <<>>, original_length |-> 0]
NoAnswer == [reachable |-> FALSE, pending |-> TRUE]
NoCall == [op |-> "none"]

\* HTTPException as the response the client gets
ErrorResponse(code, why) ==
  [status_code |-> code, cause |-> why, summary |-> <<>>, original_length |-> 0]

\* the JSONResponse of a summary
JSONResponse(text_content, summary) ==
  [status_code |-> 200, cause |-> "", summary |-> summary,
   original_length |-> Len(text_content)]

\* what is stored under a path now
FileAt(path) == IF fs[path] = 0 THEN NoFile ELSE inodes[fs[path]].content

InitCommon ==
  /\ fs = [p \in Paths |-> 0]
  /\ inodes = <<>>
  /\ fd = [r \in Reqs |-> 0]
  /\ extracted = [r \in Reqs |-> Ok(<<>>)]
  /\ normalized_max_length = [r \in Reqs |-> None]
  /\ prompt = [r \in Reqs |-> NoPrompt]
  /\ answer = [r \in Reqs |-> NoAnswer]
  /\ outcome = [r \in Reqs |-> NoOutcome]
  /\ trace = [r \in Reqs |-> <<>>]

\* one request, any input
Init ==
  /\ installed \in {Libs} \cup {Libs \ {l} : l \in Libs}
  /\ \E q \in [filename : Filenames, content : Contents, max_length : MaxLengths] :
       req = [r \in Reqs |-> IF r = 1 THEN q ELSE NoRequest]
  /\ pc = [r \in Reqs |-> IF r = 1 THEN "received" ELSE "idle"]
  /\ call = NoCall
  /\ InitCommon

\* NumReq requests in flight together
InitConc ==
  /\ installed = Libs
  /\ \E names \in [Reqs -> ConcFilenames] :
       req = [r \in Reqs |->
                [filename |-> names[r], content |-> ConcContent(r), max_length |-> None]]
  /\ pc = [r \in Reqs |-> "received"]
  /\ call = NoCall
  /\ InitCommon

(***************************************************************************)
(* summarize_document, step by step                                        *)
(***************************************************************************)
\* "Validate file type"
Validate(r) ==
  /\ pc[r] = "received"
  /\ IF FileExt(req[r].filename) \notin SupportedTypes
       THEN /\ outcome' = [outcome EXCEPT ![r] = ErrorResponse(400, "unsupported type")]
            /\ pc' = [pc EXCEPT ![r] = "done"]
       ELSE /\ pc' = [pc EXCEPT ![r] = "open"]
            /\ UNCHANGED outcome
  /\ UNCHANGED <<installed, req, fs, inodes, fd, extracted, normalized_max_length,
                 prompt, answer, trace, call>>

\* aiofiles.open(file_path, 'wb'): creates the file, or empties the one there
OpenFile(r) ==
  /\ pc[r] = "open"
  /\ LET path == file_path(req[r].filename)
     IN  IF fs[path] = 0
           THEN /\ inodes' = Append(inodes, [content |-> EmptyFile, opened |-> {r}])
                /\ fs' = [fs EXCEPT ![path] = Len(inodes) + 1]
                /\ fd' = [fd EXCEPT ![r] = Len(inodes) + 1]
           ELSE /\ inodes' = [inodes EXCEPT ![fs[path]] =
                                [content |-> EmptyFile, opened |-> @.opened \cup {r}]]
                /\ fd' = [fd EXCEPT ![r] = fs[path]]
                /\ UNCHANGED fs
  /\ pc' = [pc EXCEPT ![r] = "write"]
  /\ UNCHANGED <<installed, req, extracted, normalized_max_length, prompt, answer,
                 outcome, trace, call>>

\* content = await file.read(); await f.write(content); the file is closed
WriteFile(r) ==
  /\ pc[r] = "write"
  /\ inodes' = [inodes EXCEPT ![fd[r]].content = req[r].content]
  /\ pc' = [pc EXCEPT ![r] = "parse"]
  /\ UNCHANGED <<installed, req, fs, fd, extracted, normalized_max_length, prompt,
                 answer, outcome, trace, call>>

\* the write raises (an I/O error): no except clause takes it, finally runs
WriteFails(r) ==
  /\ pc[r] = "write"
  /\ outcome' = [outcome EXCEPT ![r] = ErrorResponse(500, "save failed")]
  /\ pc' = [pc EXCEPT ![r] = "cleanup"]
  /\ UNCHANGED <<installed, req, fs, inodes, fd, extracted, normalized_max_length,
                 prompt, answer, trace, call>>

\* the "Parse document" block, on what is under file_path when it runs
Extract(r) ==
  /\ pc[r] = "parse"
  /\ LET res == ParseStage(FileAt(file_path(req[r].filename)),
                           FileExt(req[r].filename), installed)
     IN  /\ extracted' = [extracted EXCEPT ![r] = res]
         /\ IF res.raised # ""
              THEN outcome' = [outcome EXCEPT ![r] =
                                 ErrorResponse(res.status_code, res.cause)]
              ELSE UNCHANGED outcome
         /\ pc' = [pc EXCEPT ![r] = AfterParse(res)]
  /\ trace' = [trace EXCEPT ![r] = Append(@, "extract")]
  /\ UNCHANGED <<installed, req, fs, inodes, fd, normalized_max_length, prompt,
                 answer, call>>

\* max_length is normalized, generate_summary builds the prompt and posts it
PostPrompt(r) ==
  /\ pc[r] = "prompt"
  /\ normalized_max_length' =
       [normalized_max_length EXCEPT ![r] = Normalize(req[r].max_length)]
  /\ prompt' = [prompt EXCEPT ![r] =
                  CreatePrompt(extracted[r].value, Normalize(req[r].max_length))]
  /\ trace' = [trace EXCEPT ![r] = @ \o <<"prompt", "generate">>]
  /\ pc' = [pc EXCEPT ![r] = "generate"]
  /\ UNCHANGED <<installed, req, fs, inodes, fd, extracted, answer, outcome, call>>

\* the generation service answers, or the POST fails
Generate(r) ==
  /\ pc[r] = "generate"
  /\ \E response \in GenResponses :
       LET res == GenerateStage(response)
       IN  /\ answer' = [answer EXCEPT ![r] = response]
           /\ outcome' = [outcome EXCEPT ![r] =
                            IF res.raised # ""
                              THEN ErrorResponse(res.status_code, res.cause)
                              ELSE JSONResponse(extracted[r].value, res.value)]
  /\ pc' = [pc EXCEPT ![r] = "cleanup"]
  /\ UNCHANGED <<installed, req, fs, inodes, fd, extracted, normalized_max_length,
                 prompt, trace, call>>

\* finally: "Clean up uploaded file"
Cleanup(r) ==
  /\ pc[r] = "cleanup"
  /\ fs' = Unlink(fs, file_path(req[r].filename))
  /\ pc' = [pc EXCEPT ![r] = "done"]
  /\ UNCHANGED <<installed, req, inodes, fd, extracted, normalized_max_length, prompt,
                 answer, outcome, trace, call>>

Next ==
  \E r \in Reqs :
    \/ Validate(r)
    \/ OpenFile(r)
    \/ WriteFile(r)
    \/ WriteFails(r)
    \/ Extract(r)
    \/ PostPrompt(r)
    \/ Generate(r)
    \/ Cleanup(r)

Spec == Init /\ [][Next]_vars

SpecConc == InitConc /\ [][Next]_vars

(***************************************************************************)
(* Functions called on their own                                           *)
(***************************************************************************)
\* the pipeline at rest
InitIdle ==
  /\ installed = Libs
  /\ req = [r \in Reqs |-> NoRequest]
  /\ pc = [r \in Reqs |-> "idle"]
  /\ InitCommon

PageTexts == {<<>>, <<"a">>, <<"b", " ">>}
PageSet == {ThrowingPage} \cup {Page(t) : t \in PageTexts}
PageSeqs == UNION {[1..n -> PageSet] : n \in 0..MaxPages}

InitPdf ==
  /\ InitIdle
  /\ \E ps \in PageSeqs :
       call = [op |-> "_extract_pdf_text", pages |-> ps, done |-> FALSE,
               result |-> Ok(<<>>)]

\* _extract_pdf_text on a readable PDF with the pages call.pages
ExtractPdfText ==
  /\ call.op = "_extract_pdf_text"
  /\ ~call.done
  /\ call' = [call EXCEPT !.done = TRUE,
                          !.result = _extract_pdf_text(PdfFile(call.pages))]
  /\ UNCHANGED <<installed, req, pc, fs, inodes, fd, extracted, normalized_max_length,
                 prompt, answer, outcome, trace>>

NextPdf == ExtractPdfText

SpecPdf == InitPdf /\ [][NextPdf]_vars

TextChars == <<"a", "b", " ", "\n">>
\* a text of n characters, the p-th of four
PatternText(n, p) == [i \in 1..n |-> TextChars[((i + p) % 4) + 1]]
TextLengths == {0, 1, max_chars - 1} \cup {max_chars + k : k \in 0..MaxExtra}

\* generate_summary is only called with a normalized max_length
InitPrompt ==
  /\ InitIdle
  /\ \E n \in TextLengths, p \in 0..3, m \in {None, Some(1), Some(2), Some(100)} :
       call = [op |-> "generate_summary", text |-> PatternText(n, p),
               max_length |-> m, done |-> FALSE, prompt |-> NoPrompt]

\* generate_summary up to the prompt
BuildPrompt ==
  /\ call.op = "generate_summary"
  /\ ~call.done
  /\ call' = [call EXCEPT !.done = TRUE,
                          !.prompt = CreatePrompt(call.text, call.max_length)]
  /\ UNCHANGED <<installed, req, pc, fs, inodes, fd, extracted, normalized_max_length,
                 prompt, answer, outcome, trace>>

NextPrompt == BuildPrompt

SpecPrompt == InitPrompt /\ [][NextPrompt]_vars

(***************************************************************************)
(* Vocabulary of the properties                                            *)
(***************************************************************************)
Range(s) == {s[i] : i \in 1..Len(s)}
IsPrefix(s, t) == Len(s) <= Len(t) /\ SubSeq(t, 1, Len(s)) = s
Stages == <<"extract", "prompt", "generate">>
Blank(t) == \A i \in 1..Len(t) : t[i] \in Whitespace
TextsOf(pages) == [i \in 1..Len(pages) |-> pages[i].text]

\* the failure kind of the taxonomy that a failure belongs to
FailureKind(why) ==
  CASE why = "unsupported type" -> "UnsupportedFormat"
    [] why = "import failed" -> "CapabilityUnavailable"
    [] why = "decode failed" -> "ExtractionFailed"
    [] why = "empty text" -> "ExtractionFailed"
    [] why = "unreachable" -> "ServiceUnreachable"
    [] why = "error status" -> "ServiceError"
    [] why = "empty response" -> "EmptyResponse"
    [] OTHER -> "Other"

ClientErrorKinds == {"UnsupportedFormat", "ExtractionFailed", "EmptyResponse"}
ServerErrorKinds == {"CapabilityUnavailable", "ServiceUnreachable", "ServiceError"}
IsClientError(code) == code \in 400..499
IsServerError(code) == code \in 500..599

\* what the "Parse document" block gives a request whose upload nobody touches
ExtractedAlone(r) == ParseStage(req[r].content, Lower(Suffix(req[r].filename)), installed)

(***************************************************************************)
(* Properties                                                              *)
(***************************************************************************)
\* C1: within one request the stages run in the order extract, build prompt,
\* generate, each at most once; the generation call is issued only after a
\* successful extraction; a failure ends the pipeline at the stage that failed,
\* and a finished request has exactly one of a summary or a failure.
C1_StagesInOrder ==
  \A r \in Reqs :
    /\ IsPrefix(trace[r], Stages)
    /\ "generate" \in Range(trace[r]) =>
         extracted[r].raised = "" /\ ~Blank(extracted[r].value)
    /\ outcome[r].cause \in {"unsupported type", "save failed"} => trace[r] = <<>>
    /\ outcome[r].cause \in {"import failed", "decode failed", "empty text"} =>
         trace[r] = <<"extract">>
    /\ outcome[r].status_code # 0 => pc[r] \in {"cleanup", "done"}
    /\ pc[r] = "done" =>
         \/ outcome[r].status_code = 200 /\ outcome[r].cause = "" /\ trace[r] = Stages
         \/ outcome[r].status_code \in 400..599 /\ outcome[r].cause # ""

C1_Witness ==
  \E r \in Reqs :
    /\ pc[r] = "done"
    /\ extracted[r].raised # ""
    /\ trace[r] = <<"extract">>
    /\ outcome[r].status_code = 500

\* C2: when extraction returns an empty or whitespace-only text the request
\* fails as ExtractionFailed with a client-error status, and no generation
\* call is issued.
C2_EmptyTextIsClientError ==
  \A r \in Reqs :
    extracted[r].cause = "empty text" =>
      /\ FailureKind(outcome[r].cause) = "ExtractionFailed"
      /\ IsClientError(outcome[r].status_code)
      /\ "generate" \notin Range(trace[r])

\* C3: the status class of a failed request is determined by its failure kind:
\* client-error for UnsupportedFormat, ExtractionFailed and EmptyResponse,
\* server-error for CapabilityUnavailable, ServiceUnreachable and ServiceError.
C3_StatusByFailureKind ==
  \A r \in Reqs :
    pc[r] = "done" /\ outcome[r].status_code # 200 =>
      /\ FailureKind(outcome[r].cause) \in ClientErrorKinds =>
           IsClientError(outcome[r].status_code)
      /\ FailureKind(outcome[r].cause) \in ServerErrorKinds =>
           IsServerError(outcome[r].status_code)

\* C4: a summary that is returned is non-empty and has no leading or trailing
\* whitespace; a 200 answer whose response field is absent, empty or all
\* whitespace makes the request fail with an empty-response failure.
C4_SummaryNonEmptyTrimmed ==
  \A r \in Reqs :
    /\ outcome[r].status_code = 200 =>
         LET summary == outcome[r].summary
         IN  /\ summary # <<>>
             /\ summary[1] \notin Whitespace
             /\ summary[Len(summary)] \notin Whitespace
    /\ (/\ answer[r].reachable
        /\ answer[r].status_code = 200
        /\ \/ "response" \notin DOMAIN answer[r].json
           \/ Blank(answer[r].json.response)) =>
         /\ outcome[r].status_code # 200
         /\ outcome[r].cause = "empty response"
         /\ outcome[r].summary = <<>>

C4_Witness ==
  \E r \in Reqs :
    /\ pc[r] = "done"
    /\ answer[r].reachable
    /\ answer[r].status_code = 200
    /\ "response" \in DOMAIN answer[r].json
    /\ answer[r].json.response # <<>>
    /\ Blank(answer[r].json.response)
    /\ outcome[r].cause = "empty response"

\* C5: concurrent requests are independent: whatever the interleaving, a
\* request extracts what it would extract from its own upload running alone.
C5_RequestsIndependent ==
  \A r \in Reqs :
    "extract" \in Range(trace[r]) => extracted[r] = ExtractedAlone(r)

\* C6: a filename whose lower-cased extension is not .pdf, .docx or .doc is
\* rejected with a client error before anything is saved or extracted; an
\* extension that differs from a supported one only in letter case is accepted.
C6_UnsupportedRejectedFirst ==
  \A r \in Reqs :
    pc[r] # "idle" =>
      IF Lower(Suffix(req[r].filename)) \in {DotPdf, DotDocx, DotDoc}
        THEN /\ outcome[r].cause # "unsupported type"
             /\ pc[r] = "done" => fd[r] # 0
        ELSE /\ pc[r] \in {"received", "done"}
             /\ trace[r] = <<>>
             /\ fd[r] = 0
             /\ inodes = <<>>
             /\ pc[r] = "done" =>
                  /\ IsClientError(outcome[r].status_code)
                  /\ outcome[r].cause = "unsupported type"

C6_Witness ==
  \E r \in Reqs :
    /\ pc[r] = "done"
    /\ req[r].filename = <<"a", ".", "p", "d", "f", ".", "t", "x", "t">>
    /\ outcome[r].status_code = 400

\* C7: a text of 8000 + k characters, k > 0, goes into the prompt as its first
\* 8000 characters followed by the truncation marker, whatever k is; a text of
\* at most 8000 characters goes in unmodified, without the marker.
C7_TruncatedAtCeiling ==
  (call.op = "generate_summary" /\ call.done) =>
    LET text == call.text
        document == call.prompt.document
    IN  IF Len(text) > 8000
          THEN /\ Len(document) = 8000 + Len(TruncationMarker)
               /\ \A i \in 1..8000 : document[i] = text[i]
               /\ SubSeq(document, 8001, Len(document)) = TruncationMarker
          ELSE document = text

C7_Witness ==
  /\ call.op = "generate_summary"
  /\ call.done
  /\ Len(call.text) > 8001
  /\ Len(call.prompt.document) = 8015

\* C8: the prompt has a word-limit instruction exactly when max_length is a
\* positive integer, and the instruction names that number; None, 0 and
\* negative values are normalized to unlimited, positive ones are kept.
C8_LengthInstruction ==
  \A r \in Reqs :
    "prompt" \in Range(trace[r]) =>
      LET max_length == req[r].max_length
          positive == \E n \in max_length : n > 0
      IN  /\ (prompt[r].length_instruction # <<>>) <=> positive
          /\ positive =>
               /\ prompt[r].length_instruction =
                    <<" Keep the summary under ", ToString(ValueOf(max_length)), " words.">>
               /\ normalized_max_length[r] = max_length
          /\ ~positive => normalized_max_length[r] = None

C8_Witness ==
  \E r \in Reqs :
    /\ "prompt" \in Range(trace[r])
    /\ req[r].max_length = Some(-1)
    /\ prompt[r].length_instruction = <<>>
    /\ prompt[r].document = extracted[r].value

\* C9 as stated: over a readable PDF, _extract_pdf_text returns the texts of
\* all the pages that do not throw, in page order, joined by a blank line.
C9_AllNonFailingPagesJoined ==
  (call.op = "_extract_pdf_text" /\ call.done) =>
    /\ call.result.raised = ""
    /\ call.result.value =
         Join(TextsOf(SelectSeq(call.pages, LAMBDA page : ~page.throws)))

\* C9 amended: over a readable PDF, _extract_pdf_text never raises and returns
\* the texts of the pages that do not throw and whose text is not empty, in
\* page order, joined by a blank line.
C9_NonEmptyNonFailingPagesJoined ==
  (call.op = "_extract_pdf_text" /\ call.done) =>
    /\ call.result.raised = ""
    /\ call.result.value =
         Join(TextsOf(SelectSeq(call.pages,
                                LAMBDA page : ~page.throws /\ page.text # <<>>)))

C9_Witness ==
  /\ call.op = "_extract_pdf_text"
  /\ call.done
  /\ Len(call.pages) = 3
  /\ call.pages[2].throws
  /\ call.pages[1] = Page(<<"a">>)
  /\ call.pages[3] = Page(<<"b", " ">>)
  /\ call.result.value = <<"a", "\n", "\n", "b", " ">>

\* C10: once a request that passed the extension check has ended, no file it
\* opened is left under its upload path; when every request has ended the
\* upload directory is empty.
C10_NoUploadLeftBehind ==
  /\ \A r \in Reqs :
       (pc[r] = "done" /\ outcome[r].cause # "unsupported type") =>
         LET path == file_path(req[r].filename)
         IN  fs[path] = 0 \/ r \notin inodes[fs[path]].opened
  /\ (\A r \in Reqs : pc[r] = "done") => \A p \in Paths : fs[p] = 0

C10_Witness ==
  \E r \in Reqs :
    /\ pc[r] = "done"
    /\ fd[r] # 0
    /\ inodes[fd[r]].content = req[r].content
    /\ fs[file_path(req[r].filename)] = 0

====
